---- MODULE Spec2Model ----
(***************************************************************************)
(* Model of extract_results.py: the exam-result parsing and aggregation    *)
(* pipeline (parse_questions, parse_metadata, split_exam_blocks,           *)
(* build_exam_output, build_output, the statistics tables and main).       *)
(*                                                                         *)
(* A text is a sequence of tokens, one per regular-expression match the    *)
(* code looks for, in document order:                                      *)
(*   row    - a match of QUESTION_RE: the numeral (1-2 digits), the        *)
(*            question id, the selected letter and the optional            *)
(*            "(should be X)" letter ("" when the group is absent);        *)
(*   total  - a match of "Test Failed/Passed - X out of Y";                *)
(*   header - a line matching HEADER_RE, "<name> (PIN: <digits>)".         *)
(* A string that the code compares (a question id, a group key) is the     *)
(* sequence of its code points, so that string order is code-point order.  *)
(***************************************************************************)
EXTENDS Integers, Sequences, FiniteSets, TLC

VARIABLES
    text,              \* the text handed to build_exam_output / build_output
    exam,              \* result of build_exam_output(text), or NoResult
    file_rec,          \* result of build_output(text), or NoResult
    rows,              \* flattened question rows handed to the statistics
    question_stats,    \* result of compute_question_stats(rows)
    section_stats,     \* result of compute_section_stats(rows)
    subsection_stats,  \* result of compute_subsection_stats(rows)
    returned,          \* the calls that have returned their result
    pc,                \* main: the step main is at
    args,              \* main: the parsed command line
    idx,               \* main: position of the input loop (1-based)
    outputs,           \* main: file records built so far
    all_csv_rows,      \* main: flattened rows accumulated so far
    data,              \* main: the object serialised as JSON
    extracted,         \* main: inputs whose text extraction was started
    written,           \* main: output files created
    printed,           \* main: JSON printed to standard output
    error,             \* main: the failure reported on standard error
    exit_code          \* main: the return value, NoExit while running

unitVars == <<text, exam, file_rec>>
statsVars == <<rows, question_stats, section_stats, subsection_stats>>
mainVars == <<pc, args, idx, outputs, all_csv_rows, data, extracted,
              written, printed, error, exit_code>>
vars == <<unitVars, statsVars, returned, mainVars>>

NoResult == [none |-> TRUE]

----------------------------------------------------------------------------
(* Bounds of the checked inputs *)

MaxBlockLen == 4      \* tokens in one exam block
MaxFileLen == 5       \* tokens in one file of concatenated exams
MaxStatRows == 4      \* flattened rows handed to the statistics
MaxInputs == 3        \* input paths on the command line
MaxStreamLen == 6     \* tokens and file ends in the files of one aggregation

----------------------------------------------------------------------------
(* Strings as code points *)

T3A04 == <<84, 51, 65, 48, 52>>
T3B01 == <<84, 51, 66, 48, 49>>
T5B04 == <<84, 53, 66, 48, 52>>
G1A02 == <<71, 49, 65, 48, 50>>

----------------------------------------------------------------------------
(* Tokens *)

Row(num, qid, sel, sb) ==
    [kind |-> "row", num |-> num, qid |-> qid, selected |-> sel, should_be |-> sb]

TotalLine(x, y) == [kind |-> "total", reported_correct |-> x, reported_total |-> y]

HeaderLine(name, pin) == [kind |-> "header", name |-> name, pin |-> pin]

TestNumberLine(n) == [kind |-> "test_number", test_number |-> n]

ElementLine(n) == [kind |-> "element", element |-> n]

IsRow(t) == t.kind = "row"
IsTotal(t) == t.kind = "total"
IsHeader(t) == t.kind = "header"
IsTestNumber(t) == t.kind = "test_number"
IsElement(t) == t.kind = "element"

(* int(m.group(1)) on a numeral of one or two digits *)
IntOf(num) == IF Len(num) = 1 THEN num[1] ELSE 10 * num[1] + num[2]

----------------------------------------------------------------------------
(* parse_questions *)

QuestionResult(m) ==
    LET correct == IF m.should_be # "" THEN m.should_be ELSE m.selected
    IN  [number |-> IntOf(m.num),
         question_id |-> m.qid,
         selected |-> m.selected,
         correct |-> correct,
         is_correct |-> (m.selected = correct)]

RECURSIVE MapQuestionResult(_)
MapQuestionResult(ms) ==
    IF ms = <<>> THEN <<>>
    ELSE <<QuestionResult(Head(ms))>> \o MapQuestionResult(Tail(ms))

(* list.sort(key=number) is stable: a row goes after the rows already      *)
(* placed whose number is less than or equal to its own.                   *)
RECURSIVE InsertByNumber(_, _)
InsertByNumber(q, s) ==
    IF s = <<>> THEN <<q>>
    ELSE IF Head(s).number <= q.number
         THEN <<Head(s)>> \o InsertByNumber(q, Tail(s))
         ELSE <<q>> \o s

RECURSIVE SortByNumber(_)
SortByNumber(s) ==
    IF s = <<>> THEN <<>>
    ELSE InsertByNumber(s[Len(s)], SortByNumber(SubSeq(s, 1, Len(s) - 1)))

parse_questions_unsorted(txt) == MapQuestionResult(SelectSeq(txt, IsRow))

parse_questions(txt) == SortByNumber(MapQuestionResult(SelectSeq(txt, IsRow)))

----------------------------------------------------------------------------
(* parse_metadata: a sparse mapping; each re.search takes the first match  *)
(* in the block and a miss omits the keys.  The outcome, validity window   *)
(* and started/graded searches fill keys no other function reads and are   *)
(* left out.                                                               *)

parse_metadata(txt) ==
    LET hs == SelectSeq(txt, IsHeader)
        ts == SelectSeq(txt, IsTotal)
        es == SelectSeq(txt, IsElement)
        ns == SelectSeq(txt, IsTestNumber)
        m1 == IF hs = <<>> THEN <<>>
              ELSE ("candidate_name" :> hs[1].name) @@ ("pin" :> hs[1].pin)
        m2 == IF ts = <<>> THEN <<>>
              ELSE ("reported_correct" :> ts[1].reported_correct)
                   @@ ("reported_total" :> ts[1].reported_total)
        m3 == IF es = <<>> THEN <<>> ELSE ("element" :> es[1].element)
        m4 == IF ns = <<>> THEN <<>> ELSE ("test_number" :> ns[1].test_number)
    IN  m1 @@ m2 @@ m3 @@ m4

----------------------------------------------------------------------------
(* build_exam_output *)

RECURSIVE NumbersOf(_)
NumbersOf(qs) ==
    IF qs = <<>> THEN <<>> ELSE <<Head(qs).number>> \o NumbersOf(Tail(qs))

SeqRange(s) == {s[i] : i \in 1..Len(s)}

Max(S) == CHOOSE x \in S : \A y \in S : y <= x

RECURSIVE CountCorrect(_)
CountCorrect(qs) ==
    IF qs = <<>> THEN 0
    ELSE (IF Head(qs).is_correct THEN 1 ELSE 0) + CountCorrect(Tail(qs))

(* for n in numbers: if n in seen and n not in duplicates: append *)
RECURSIVE ScanDuplicatesRepeating(_, _, _)
ScanDuplicatesRepeating(numbers, seen, duplicates) ==
    IF numbers = <<>> THEN duplicates
    ELSE LET n == Head(numbers)
         IN  ScanDuplicatesRepeating(Tail(numbers), seen \cup {n},
                 IF n \in seen THEN Append(duplicates, n) ELSE duplicates)

RECURSIVE ScanDuplicates(_, _, _)
ScanDuplicates(numbers, seen, duplicates) ==
    IF numbers = <<>> THEN duplicates
    ELSE LET n == Head(numbers)
         IN  ScanDuplicates(Tail(numbers), seen \cup {n},
                 IF n \in seen /\ n \notin SeqRange(duplicates)
                 THEN Append(duplicates, n) ELSE duplicates)

ExpectedTotalMaxOnly(metadata, numbers) == Max(SeqRange(numbers))

(* reported_total if isinstance(reported_total, int) else max(numbers) *)
ExpectedTotal(metadata, numbers) ==
    IF "reported_total" \in DOMAIN metadata
    THEN metadata["reported_total"]
    ELSE Max(SeqRange(numbers))

RECURSIVE MissingShort(_, _, _)
MissingShort(n, expected_total, seen) ==
    IF n >= expected_total THEN <<>>
    ELSE (IF n \notin seen THEN <<n>> ELSE <<>>)
         \o MissingShort(n + 1, expected_total, seen)

(* for n in range(1, expected_total + 1): if n not in seen: append *)
RECURSIVE Missing(_, _, _)
Missing(n, expected_total, seen) ==
    IF n > expected_total THEN <<>>
    ELSE (IF n \notin seen THEN <<n>> ELSE <<>>)
         \o Missing(n + 1, expected_total, seen)

(* sorted(seen) *)
RECURSIVE Sorted(_)
Sorted(S) ==
    IF S = {} THEN <<>>
    ELSE LET m == Max(S) IN Append(Sorted(S \ {m}), m)

UnexpectedAboveOnly(seen, expected_total) ==
    LET Out(n) == n > expected_total
    IN  SelectSeq(Sorted(seen), Out)

(* for n in sorted(seen): if n < 1 or n > expected_total: append *)
Unexpected(seen, expected_total) ==
    LET Out(n) == n < 1 \/ n > expected_total
    IN  SelectSeq(Sorted(seen), Out)

(* os.path.abspath joins the working directory and a relative path *)
abspath(path) == <<"cwd">> \o path

build_exam_output(txt, source_path) ==
    LET questions == parse_questions(txt)
        metadata == parse_metadata(txt)
        total == Len(questions)
        correct == CountCorrect(questions)
        numbers == NumbersOf(questions)
        seen == SeqRange(numbers)
        checked == numbers # <<>>
        expected_total == ExpectedTotal(metadata, numbers)
    IN  [source |-> abspath(source_path),
         metadata |-> metadata,
         summary |->
            [total_questions_parsed |-> total,
             correct |-> correct,
             incorrect |-> total - correct,
             missing_numbers |->
                IF checked THEN Missing(1, expected_total, seen) ELSE <<>>,
             duplicate_numbers |->
                IF checked THEN ScanDuplicates(numbers, {}, <<>>) ELSE <<>>,
             unexpected_numbers |->
                IF checked THEN Unexpected(seen, expected_total) ELSE <<>>],
         questions |-> questions]

----------------------------------------------------------------------------
(* split_exam_blocks *)

(* starts = [m.start() for m in HEADER_RE.finditer(text)] *)
HeaderStarts(txt) == {i \in 1..Len(txt) : IsHeader(txt[i])}

BlockEndAtTextEnd(txt, starts, start) == Len(txt)

(* end = starts[i + 1] if i + 1 < len(starts) else len(text) *)
BlockEnd(txt, starts, start) ==
    IF \E n \in starts : n > start
    THEN (CHOOSE n \in starts : n > start /\ \A k \in starts : k > start => n <= k) - 1
    ELSE Len(txt)

RECURSIVE CollectBlocks(_, _, _)
CollectBlocks(txt, starts, from) ==
    IF from = <<>> THEN <<>>
    ELSE LET start == Head(from)
             block == SubSeq(txt, start, BlockEnd(txt, starts, start))
         IN  (IF block # <<>> THEN <<block>> ELSE <<>>)
             \o CollectBlocks(txt, starts, Tail(from))

split_exam_blocks(txt) ==
    LET starts == HeaderStarts(txt)
        blocks == CollectBlocks(txt, starts, Sorted(starts))
    IN  IF starts = {} THEN <<txt>>
        ELSE IF blocks # <<>> THEN blocks ELSE <<txt>>

----------------------------------------------------------------------------
(* build_output *)

RECURSIVE BuildExams(_, _)
BuildExams(blocks, source_path) ==
    IF blocks = <<>> THEN <<>>
    ELSE <<build_exam_output(Head(blocks), source_path)>>
         \o BuildExams(Tail(blocks), source_path)

RECURSIVE SumSummary(_, _)
SumSummary(exams, field) ==
    IF exams = <<>> THEN 0
    ELSE Head(exams).summary[field] + SumSummary(Tail(exams), field)

Restrict(f, keys) == [k \in (DOMAIN f) \cap keys |-> f[k]]

build_output(txt, source_path) ==
    LET blocks == split_exam_blocks(txt)
        exams == BuildExams(blocks, source_path)
        first_meta == IF exams # <<>> THEN exams[1].metadata ELSE <<>>
    IN  IF Len(blocks) = 1 THEN build_exam_output(blocks[1], source_path)
        ELSE [source |-> abspath(source_path),
              metadata |-> Restrict(first_meta, {"candidate_name", "pin"}),
              summary |->
                 [total_exams_parsed |-> Len(exams),
                  total_questions_parsed |-> SumSummary(exams, "total_questions_parsed"),
                  correct |-> SumSummary(exams, "correct"),
                  incorrect |-> SumSummary(exams, "incorrect")],
              exams |-> exams]

----------------------------------------------------------------------------
(* parse_question_id_parts: QUESTION_ID_PARTS_RE is letter, digit, letter, *)
(* two digits; "" is the empty sequence of code points.                    *)

IsUpper(c) == c \in 65..90
IsDigitChar(c) == c \in 48..57

parse_question_id_parts(question_id) ==
    IF /\ Len(question_id) = 5
       /\ IsUpper(question_id[1]) /\ IsDigitChar(question_id[2])
       /\ IsUpper(question_id[3])
       /\ IsDigitChar(question_id[4]) /\ IsDigitChar(question_id[5])
    THEN [pool |-> <<question_id[1]>>, section |-> <<question_id[2]>>,
          subsection |-> <<question_id[3]>>]
    ELSE [pool |-> <<>>, section |-> <<>>, subsection |-> <<>>]

----------------------------------------------------------------------------
(* compute_group_stats / compute_question_stats.  A dict is the sequence   *)
(* of its values in insertion order.  An accuracy is kept as the number of *)
(* ten-thousandths, the unit round(x, 4) rounds to.                        *)

TallyAlwaysIncorrect(stats, is_correct) ==
    [stats EXCEPT !["attempts"] = @ + 1,
                  !["correct"] = IF is_correct THEN @ + 1 ELSE @,
                  !["incorrect"] = @ + 1]

(* attempts += 1; correct += 1 if is_correct else incorrect += 1 *)
Tally(stats, is_correct) ==
    [stats EXCEPT !["attempts"] = @ + 1,
                  !["correct"] = IF is_correct THEN @ + 1 ELSE @,
                  !["incorrect"] = IF is_correct THEN @ ELSE @ + 1]

NewStats(key_name, group_key) ==
    (key_name :> group_key) @@ [attempts |-> 0, correct |-> 0, incorrect |-> 0]

(* stats_by_key.setdefault(group_key, {...}) followed by the tally *)
RECURSIVE Upsert(_, _, _, _)
Upsert(stats_by_key, key_name, group_key, is_correct) ==
    IF stats_by_key = <<>>
    THEN <<Tally(NewStats(key_name, group_key), is_correct)>>
    ELSE IF Head(stats_by_key)[key_name] = group_key
         THEN <<Tally(Head(stats_by_key), is_correct)>> \o Tail(stats_by_key)
         ELSE <<Head(stats_by_key)>>
              \o Upsert(Tail(stats_by_key), key_name, group_key, is_correct)

(* round(correct / attempts, 4) in ten-thousandths: the nearest one.  A    *)
(* quotient lies halfway between two only when attempts is a multiple of   *)
(* 32, where the float decides (1/32 = 0.03125 is exact and goes to the    *)
(* even 0.0312).                                                           *)
Round4(correct, attempts) ==
    LET q == (10000 * correct) \div attempts
        r == (10000 * correct) % attempts
    IN  IF 2 * r < attempts THEN q
        ELSE IF 2 * r > attempts THEN q + 1
        ELSE IF q % 2 = 0 THEN q ELSE q + 1

WithAccuracy(stats) ==
    LET attempts == stats["attempts"]
        correct == stats["correct"]
        accuracy == IF attempts # 0 THEN Round4(correct, attempts) ELSE 0
    IN  stats @@ ("accuracy" :> accuracy)

RECURSIVE MapWithAccuracy(_)
MapWithAccuracy(ss) ==
    IF ss = <<>> THEN <<>>
    ELSE <<WithAccuracy(Head(ss))>> \o MapWithAccuracy(Tail(ss))

(* str < str: code-point order, a proper prefix first *)
RECURSIVE StrLess(_, _)
StrLess(a, b) ==
    IF b = <<>> THEN FALSE
    ELSE IF a = <<>> THEN TRUE
    ELSE IF Head(a) # Head(b) THEN Head(a) < Head(b)
    ELSE StrLess(Tail(a), Tail(b))

SortKeyLessAttemptsAscending(a, b, key_name) ==
    \/ a["accuracy"] < b["accuracy"]
    \/ /\ a["accuracy"] = b["accuracy"]
       /\ \/ a["attempts"] < b["attempts"]
          \/ /\ a["attempts"] = b["attempts"]
             /\ StrLess(a[key_name], b[key_name])

(* (accuracy, -attempts, key) < (accuracy, -attempts, key) *)
SortKeyLess(a, b, key_name) ==
    \/ a["accuracy"] < b["accuracy"]
    \/ /\ a["accuracy"] = b["accuracy"]
       /\ \/ -a["attempts"] < -b["attempts"]
          \/ /\ a["attempts"] = b["attempts"]
             /\ StrLess(a[key_name], b[key_name])

RECURSIVE InsertStats(_, _, _)
InsertStats(e, s, key_name) ==
    IF s = <<>> THEN <<e>>
    ELSE IF SortKeyLess(e, Head(s), key_name)
         THEN <<e>> \o s
         ELSE <<Head(s)>> \o InsertStats(e, Tail(s), key_name)

RECURSIVE SortStats(_, _)
SortStats(s, key_name) ==
    IF s = <<>> THEN <<>>
    ELSE InsertStats(s[Len(s)], SortStats(SubSeq(s, 1, Len(s) - 1), key_name), key_name)

(* make_group_key is a function of the parts record *)
RECURSIVE GroupRows(_, _, _, _)
GroupRows(rs, key_name, make_group_key, stats_by_key) ==
    IF rs = <<>> THEN stats_by_key
    ELSE LET row == Head(rs)
             question_id == row.question_id
             group_key == IF question_id = <<>> THEN <<>>
                          ELSE make_group_key[parse_question_id_parts(question_id)]
         IN  GroupRows(Tail(rs), key_name, make_group_key,
                 IF group_key = <<>> THEN stats_by_key
                 ELSE Upsert(stats_by_key, key_name, group_key, row.is_correct))

compute_group_stats(rs, key_name, make_group_key) ==
    SortStats(MapWithAccuracy(GroupRows(rs, key_name, make_group_key, <<>>)), key_name)

RECURSIVE GroupRowsById(_, _)
GroupRowsById(rs, stats_by_key) ==
    IF rs = <<>> THEN stats_by_key
    ELSE LET row == Head(rs)
         IN  GroupRowsById(Tail(rs),
                 IF row.question_id = <<>> THEN stats_by_key
                 ELSE Upsert(stats_by_key, "question_id", row.question_id, row.is_correct))

compute_question_stats(rs) ==
    SortStats(MapWithAccuracy(GroupRowsById(rs, <<>>)), "question_id")

(* the records parse_question_id_parts returns: each part is "" or one    *)
(* character                                                               *)
IdParts ==
    LET part == {<<>>} \cup {<<c>> : c \in 48..90}
    IN  [pool : part, section : part, subsection : part]

SectionKey ==
    [p \in IdParts |->
        IF p.pool # <<>> /\ p.section # <<>> THEN p.pool \o p.section ELSE <<>>]

compute_section_stats(rs) == compute_group_stats(rs, "section_id", SectionKey)

SubsectionKey ==
    [p \in IdParts |->
        IF p.pool # <<>> /\ p.section # <<>> /\ p.subsection # <<>>
        THEN p.pool \o p.section \o p.subsection ELSE <<>>]

compute_subsection_stats(rs) == compute_group_stats(rs, "subsection_id", SubsectionKey)

----------------------------------------------------------------------------
(* extract_exam_list / flatten_questions_for_csv / build_multi_file_output *)

extract_exam_list(d) == IF "exams" \in DOMAIN d THEN d.exams ELSE <<d>>

Get(f, key, default) == IF key \in DOMAIN f THEN f[key] ELSE default

RECURSIVE FlattenQuestions(_, _, _, _, _)
FlattenQuestions(qs, source, i, test_number, element) ==
    IF qs = <<>> THEN <<>>
    ELSE <<[source |-> source, exam_index_in_source |-> i,
            test_number |-> test_number, element |-> element]
           @@ Head(qs)>>
         \o FlattenQuestions(Tail(qs), source, i, test_number, element)

RECURSIVE FlattenExams(_, _, _)
FlattenExams(exams, source, i) ==
    IF i > Len(exams) THEN <<>>
    ELSE FlattenQuestions(exams[i].questions, source, i,
                          Get(exams[i].metadata, "test_number", ""),
                          Get(exams[i].metadata, "element", ""))
         \o FlattenExams(exams, source, i + 1)

flatten_questions_for_csv(d) == FlattenExams(extract_exam_list(d), d.source, 1)

SumExamsOnePerFile(outs) == Len(outs)

(* all_exams += len(extract_exam_list(out)) *)
RECURSIVE SumExams(_)
SumExams(outs) ==
    IF outs = <<>> THEN 0
    ELSE Len(extract_exam_list(Head(outs))) + SumExams(Tail(outs))

RECURSIVE FlattenAll(_)
FlattenAll(outs) ==
    IF outs = <<>> THEN <<>>
    ELSE flatten_questions_for_csv(Head(outs)) \o FlattenAll(Tail(outs))

RECURSIVE SourcesOf(_)
SourcesOf(outs) ==
    IF outs = <<>> THEN <<>> ELSE <<Head(outs).source>> \o SourcesOf(Tail(outs))

build_multi_file_output(outs) ==
    LET all_rows == FlattenAll(outs)
    IN  [sources |-> SourcesOf(outs),
         summary |->
            [total_input_files |-> Len(outs),
             total_exams_parsed |-> SumExams(outs),
             total_questions_parsed |-> SumSummary(outs, "total_questions_parsed"),
             correct |-> SumSummary(outs, "correct"),
             incorrect |-> SumSummary(outs, "incorrect")],
         question_stats |-> compute_question_stats(all_rows),
         section_stats |-> compute_section_stats(all_rows),
         subsection_stats |-> compute_subsection_stats(all_rows),
         results |-> outs]

----------------------------------------------------------------------------
(* main.  An input path is given with what the file system and the         *)
(* converter hold for it: "missing" (os.path.exists is false),             *)
(* "extract_fails" (extract_text_from_pdf raises, or open/read raises),    *)
(* "parse_fails" (the text is read and build_output raises) or "ok".       *)

InputFile(path, status, txt) == [path |-> path, status |-> status, text |-> txt]

InputPath(i) == <<"in", i>>

AnyMissing == \E i \in 1..Len(args.input) : args.input[i].status = "missing"

FirstInputMissing == args.input[1].status = "missing"

MainUnchanged == UNCHANGED <<unitVars, statsVars, returned, args>>

CheckFirstInputOnly ==
    /\ pc = "check_inputs"
    /\ IF FirstInputMissing
       THEN /\ error' = "Input not found"
            /\ exit_code' = 2
            /\ pc' = "exit"
       ELSE /\ pc' = "process"
            /\ UNCHANGED <<error, exit_code>>
    /\ UNCHANGED <<idx, outputs, all_csv_rows, data, extracted, written, printed>>
    /\ MainUnchanged

(* lines 508-511: for path in args.input: if not exists: return 2 *)
CheckInputs ==
    /\ pc = "check_inputs"
    /\ IF AnyMissing
       THEN /\ error' = "Input not found"
            /\ exit_code' = 2
            /\ pc' = "exit"
       ELSE /\ pc' = "process"
            /\ UNCHANGED <<error, exit_code>>
    /\ UNCHANGED <<idx, outputs, all_csv_rows, data, extracted, written, printed>>
    /\ MainUnchanged

(* lines 516-529: one turn of the input loop that raises nothing *)
ProcessInput ==
    /\ pc = "process"
    /\ idx <= Len(args.input)
    /\ args.input[idx].status = "ok"
    /\ LET file_output == build_output(args.input[idx].text, args.input[idx].path)
       IN  /\ outputs' = Append(outputs, file_output)
           /\ all_csv_rows' = all_csv_rows \o flatten_questions_for_csv(file_output)
    /\ extracted' = extracted + 1
    /\ idx' = idx + 1
    /\ UNCHANGED <<pc, data, written, printed, error, exit_code>>
    /\ MainUnchanged

ProcessInputFailsSkipped ==
    /\ pc = "process"
    /\ idx <= Len(args.input)
    /\ args.input[idx].status # "ok"
    /\ extracted' = extracted + 1
    /\ error' = args.input[idx].status
    /\ idx' = idx + 1
    /\ UNCHANGED <<pc, exit_code, outputs, all_csv_rows, data, written, printed>>
    /\ MainUnchanged

(* lines 516-529 raising, caught at 553-555: return 1 *)
ProcessInputFails ==
    /\ pc = "process"
    /\ idx <= Len(args.input)
    /\ args.input[idx].status # "ok"
    /\ extracted' = extracted + 1
    /\ error' = args.input[idx].status
    /\ exit_code' = 1
    /\ pc' = "exit"
    /\ UNCHANGED <<idx, outputs, all_csv_rows, data, written, printed>>
    /\ MainUnchanged

(* lines 531-534 *)
Aggregate ==
    /\ pc = "process"
    /\ idx > Len(args.input)
    /\ data' = IF Len(outputs) = 1 THEN outputs[1]
               ELSE build_multi_file_output(outputs)
    /\ pc' = "write_csv"
    /\ UNCHANGED <<idx, outputs, all_csv_rows, extracted, written, printed,
                   error, exit_code>>
    /\ MainUnchanged

(* write_csv: no file for an empty row collection *)
write_csv(files, path, rs) == IF rs = <<>> THEN files ELSE files \cup {path}

(* lines 536-537 *)
WriteCsv ==
    /\ pc = "write_csv"
    /\ written' = IF args.csv THEN write_csv(written, "csv", all_csv_rows)
                  ELSE written
    /\ pc' = "write_stats_csv"
    /\ UNCHANGED <<idx, outputs, all_csv_rows, data, extracted, printed,
                   error, exit_code>>
    /\ MainUnchanged

(* lines 538-539 *)
WriteStatsCsv ==
    /\ pc = "write_stats_csv"
    /\ written' = IF args.stats_csv
                  THEN write_csv(written, "stats_csv",
                                 compute_question_stats(all_csv_rows))
                  ELSE written
    /\ pc' = "write_section_stats_csv"
    /\ UNCHANGED <<idx, outputs, all_csv_rows, data, extracted, printed,
                   error, exit_code>>
    /\ MainUnchanged

(* lines 540-541 *)
WriteSectionStatsCsv ==
    /\ pc = "write_section_stats_csv"
    /\ written' = IF args.section_stats_csv
                  THEN write_csv(written, "section_stats_csv",
                                 compute_section_stats(all_csv_rows))
                  ELSE written
    /\ pc' = "write_subsection_stats_csv"
    /\ UNCHANGED <<idx, outputs, all_csv_rows, data, extracted, printed,
                   error, exit_code>>
    /\ MainUnchanged

(* lines 542-543 *)
WriteSubsectionStatsCsv ==
    /\ pc = "write_subsection_stats_csv"
    /\ written' = IF args.subsection_stats_csv
                  THEN write_csv(written, "subsection_stats_csv",
                                 compute_subsection_stats(all_csv_rows))
                  ELSE written
    /\ pc' = "write_json"
    /\ UNCHANGED <<idx, outputs, all_csv_rows, data, extracted, printed,
                   error, exit_code>>
    /\ MainUnchanged

(* lines 545-551 and 557: the JSON goes to --out or to standard output *)
WriteJson ==
    /\ pc = "write_json"
    /\ IF args.out
       THEN written' = written \cup {"out"} /\ UNCHANGED printed
       ELSE printed' = TRUE /\ UNCHANGED written
    /\ exit_code' = 0
    /\ pc' = "exit"
    /\ UNCHANGED <<idx, outputs, all_csv_rows, data, extracted, error>>
    /\ MainUnchanged

WriteTarget ==
    [write_csv |-> "csv", write_stats_csv |-> "stats_csv",
     write_section_stats_csv |-> "section_stats_csv",
     write_subsection_stats_csv |-> "subsection_stats_csv",
     write_json |-> "out"]

WriteRows ==
    [write_csv |-> all_csv_rows,
     write_stats_csv |-> compute_question_stats(all_csv_rows),
     write_section_stats_csv |-> compute_section_stats(all_csv_rows),
     write_subsection_stats_csv |-> compute_subsection_stats(all_csv_rows),
     write_json |-> <<data>>]

(* open() or a write raising in lines 536-549, caught at 553-555: the file *)
(* may or may not have been created                                        *)
WriteFails ==
    /\ pc \in DOMAIN WriteTarget
    /\ args[WriteTarget[pc]]
    /\ WriteRows[pc] # <<>>
    /\ \E created \in BOOLEAN :
           written' = IF created THEN written \cup {WriteTarget[pc]} ELSE written
    /\ error' = "write"
    /\ exit_code' = 1
    /\ pc' = "exit"
    /\ UNCHANGED <<idx, outputs, all_csv_rows, data, extracted, printed>>
    /\ MainUnchanged

----------------------------------------------------------------------------
(* Exam blocks handed to build_exam_output *)

(* the numerals "0", "1", "2", "01" and "36" *)
Numerals == {<<0>>, <<1>>, <<2>>, <<0, 1>>, <<3, 6>>}

ExamTokens ==
    {Row(num, T5B04, "A", sb) : num \in Numerals, sb \in {"", "B"}}
    \cup {TotalLine(1, 2), TotalLine(30, 35)}

SeqsUpTo(S, n) == UNION {[1..k -> S] : k \in 0..n}

BlockTexts == SeqsUpTo(ExamTokens, MaxBlockLen)

SourcePath == <<"exam.txt">>

NoExit == -1

MainIdle ==
    /\ pc = "idle"
    /\ args = <<>>
    /\ idx = 1
    /\ outputs = <<>>
    /\ all_csv_rows = <<>>
    /\ data = NoResult
    /\ extracted = 0
    /\ written = {}
    /\ printed = FALSE
    /\ error = ""
    /\ exit_code = NoExit

StatsIdle ==
    /\ rows = <<>>
    /\ question_stats = <<>>
    /\ section_stats = <<>>
    /\ subsection_stats = <<>>

InitExam ==
    /\ text \in BlockTexts
    /\ exam = NoResult
    /\ file_rec = NoResult
    /\ StatsIdle
    /\ MainIdle
    /\ returned = {}

CallBuildExamOutput ==
    /\ "build_exam_output" \notin returned
    /\ exam' = build_exam_output(text, SourcePath)
    /\ returned' = returned \cup {"build_exam_output"}
    /\ UNCHANGED <<text, file_rec, statsVars, mainVars>>

NextExam == CallBuildExamOutput

SpecExam == InitExam /\ [][NextExam]_vars

----------------------------------------------------------------------------
(* Files of concatenated exams handed to build_output *)

FileTokens ==
    {HeaderLine("ALICE", "1234"), HeaderLine("BOB", "77"),
     Row(<<1>>, T3A04, "A", ""), Row(<<1>>, T3A04, "A", "B"),
     Row(<<2>>, T5B04, "B", ""), TestNumberLine("7")}

FileTexts == SeqsUpTo(FileTokens, MaxFileLen)

InitFile ==
    /\ text \in FileTexts
    /\ exam = NoResult
    /\ file_rec = NoResult
    /\ StatsIdle
    /\ MainIdle
    /\ returned = {}

CallBuildOutput ==
    /\ "build_output" \notin returned
    /\ file_rec' = build_output(text, SourcePath)
    /\ returned' = returned \cup {"build_output"}
    /\ UNCHANGED <<text, exam, statsVars, mainVars>>

NextFile == CallBuildOutput

SpecFile == InitFile /\ [][NextFile]_vars

----------------------------------------------------------------------------
(* Flattened rows handed to the statistics: the rows flatten_questions_for_csv *)
(* makes of parsed questions                                               *)

QuestionIds == {T3A04, T3B01, T5B04, G1A02}

FlatRow(question_id, is_correct) ==
    [source |-> abspath(SourcePath), exam_index_in_source |-> 1,
     test_number |-> "", element |-> "",
     number |-> 1, question_id |-> question_id, selected |-> "A",
     correct |-> IF is_correct THEN "A" ELSE "B", is_correct |-> is_correct]

StatsRows ==
    SeqsUpTo({FlatRow(q, c) : q \in QuestionIds, c \in BOOLEAN}, MaxStatRows)

InitStats ==
    /\ text = <<>>
    /\ exam = NoResult
    /\ file_rec = NoResult
    /\ rows \in StatsRows
    /\ question_stats = <<>>
    /\ section_stats = <<>>
    /\ subsection_stats = <<>>
    /\ MainIdle
    /\ returned = {}

(* the three tables are computed in this order (lines 444-446, 539-543) *)
CallComputeQuestionStats ==
    /\ "compute_question_stats" \notin returned
    /\ question_stats' = compute_question_stats(rows)
    /\ returned' = returned \cup {"compute_question_stats"}
    /\ UNCHANGED <<unitVars, mainVars, rows, section_stats, subsection_stats>>

CallComputeSectionStats ==
    /\ "compute_question_stats" \in returned
    /\ "compute_section_stats" \notin returned
    /\ section_stats' = compute_section_stats(rows)
    /\ returned' = returned \cup {"compute_section_stats"}
    /\ UNCHANGED <<unitVars, mainVars, rows, question_stats, subsection_stats>>

CallComputeSubsectionStats ==
    /\ "compute_section_stats" \in returned
    /\ "compute_subsection_stats" \notin returned
    /\ subsection_stats' = compute_subsection_stats(rows)
    /\ returned' = returned \cup {"compute_subsection_stats"}
    /\ UNCHANGED <<unitVars, mainVars, rows, question_stats, section_stats>>

NextStats ==
    \/ CallComputeQuestionStats
    \/ CallComputeSectionStats
    \/ CallComputeSubsectionStats

SpecStats == InitStats /\ [][NextStats]_vars

----------------------------------------------------------------------------
(* Runs of main *)

(* the documents of a run: one without rows, a single exam, and two        *)
(* concatenated exams                                                      *)
InputTexts ==
    {<<>>,
     <<Row(<<1>>, T3A04, "A", "")>>,
     <<HeaderLine("ALICE", "1234"), Row(<<1>>, T3A04, "A", "B"),
       HeaderLine("ALICE", "1234"), Row(<<1>>, T3A04, "A", ""),
       Row(<<2>>, T5B04, "B", "")>>}

InputFiles(i) ==
    {InputFile(InputPath(i), st, <<>>) :
        st \in {"missing", "extract_fails", "parse_fails"}}
    \cup {InputFile(InputPath(i), "ok", t) : t \in InputTexts}

InputLists ==
    UNION {{s \in [1..n -> UNION {InputFiles(i) : i \in 1..n}] :
               \A i \in 1..n : s[i].path = InputPath(i)} : n \in 1..MaxInputs}

Args ==
    [input : InputLists, csv : BOOLEAN, stats_csv : BOOLEAN,
     section_stats_csv : BOOLEAN, subsection_stats_csv : BOOLEAN, out : BOOLEAN]

Init ==
    /\ text = <<>>
    /\ exam = NoResult
    /\ file_rec = NoResult
    /\ StatsIdle
    /\ returned = {}
    /\ args \in Args
    /\ pc = "check_inputs"
    /\ idx = 1
    /\ outputs = <<>>
    /\ all_csv_rows = <<>>
    /\ data = NoResult
    /\ extracted = 0
    /\ written = {}
    /\ printed = FALSE
    /\ error = ""
    /\ exit_code = NoExit

Next ==
    \/ CheckInputs
    \/ ProcessInput
    \/ ProcessInputFails
    \/ Aggregate
    \/ WriteCsv
    \/ WriteStatsCsv
    \/ WriteSectionStatsCsv
    \/ WriteSubsectionStatsCsv
    \/ WriteJson
    \/ WriteFails

Spec == Init /\ [][Next]_vars

----------------------------------------------------------------------------
(* Lists of file records handed to build_multi_file_output: the records    *)
(* build_output makes of the files of a run.  The files are drawn as one   *)
(* stream of tokens in which an end-of-file mark closes each file but the  *)
(* last.                                                                   *)

EndOfFile == [kind |-> "eof"]

AggregateTokens ==
    {HeaderLine("ALICE", "1234"),
     Row(<<1>>, T3A04, "A", ""), Row(<<1>>, T3A04, "A", "B"),
     Row(<<2>>, T3B01, "B", "")}

Streams == SeqsUpTo(AggregateTokens \cup {EndOfFile}, MaxStreamLen)

RECURSIVE SplitFiles(_, _)
SplitFiles(stream, current) ==
    IF stream = <<>> THEN <<current>>
    ELSE IF Head(stream) = EndOfFile
         THEN <<current>> \o SplitFiles(Tail(stream), <<>>)
         ELSE SplitFiles(Tail(stream), Append(current, Head(stream)))

(* lines 516-528: outputs.append(build_output(text, input_path)) *)
RECURSIVE BuildOutputs(_, _)
BuildOutputs(texts, i) ==
    IF i > Len(texts) THEN <<>>
    ELSE <<build_output(texts[i], InputPath(i))>> \o BuildOutputs(texts, i + 1)

FileRecordLists == {BuildOutputs(SplitFiles(s, <<>>), 1) : s \in Streams}

InitAggregate ==
    /\ text = <<>>
    /\ exam = NoResult
    /\ file_rec = NoResult
    /\ StatsIdle
    /\ returned = {}
    /\ pc = "idle"
    /\ args = <<>>
    /\ idx = 1
    /\ outputs \in FileRecordLists
    /\ all_csv_rows = <<>>
    /\ data = NoResult
    /\ extracted = 0
    /\ written = {}
    /\ printed = FALSE
    /\ error = ""
    /\ exit_code = NoExit

CallBuildMultiFileOutput ==
    /\ "build_multi_file_output" \notin returned
    /\ data' = build_multi_file_output(outputs)
    /\ returned' = returned \cup {"build_multi_file_output"}
    /\ UNCHANGED <<unitVars, statsVars, pc, args, idx, outputs, all_csv_rows,
                   extracted, written, printed, error, exit_code>>

NextAggregate == CallBuildMultiFileOutput

SpecAggregate == InitAggregate /\ [][NextAggregate]_vars

----------------------------------------------------------------------------
(* Vocabulary of the properties of one exam record *)

ExamBuilt == "build_exam_output" \in returned

MatchedRows == SelectSeq(text, IsRow)

ParsedNumbers == {exam.questions[i].number : i \in 1..Len(exam.questions)}

Occurrences(n) ==
    Cardinality({i \in 1..Len(exam.questions) : exam.questions[i].number = n})

HasReportedTotal == "reported_total" \in DOMAIN exam.metadata

(* reported_total when present, otherwise the maximum parsed number (0 for *)
(* a block without rows)                                                   *)
ClaimedExpectedTotal ==
    IF HasReportedTotal THEN exam.metadata["reported_total"]
    ELSE IF ParsedNumbers = {} THEN 0 ELSE Max(ParsedNumbers)

IsAscending(s) == \A i \in 1..(Len(s) - 1) : s[i] < s[i + 1]

IntegrityListsEmpty ==
    /\ exam.summary.missing_numbers = <<>>
    /\ exam.summary.duplicate_numbers = <<>>
    /\ exam.summary.unexpected_numbers = <<>>

ExactlyOneToExpected ==
    /\ ParsedNumbers = 1..ClaimedExpectedTotal
    /\ \A n \in ParsedNumbers : Occurrences(n) = 1

Questions == exam.questions

Summary == exam.summary

RowsNumbered(n) ==
    Cardinality({i \in 1..Len(MatchedRows) : IntOf(MatchedRows[i].num) = n})

(* index in the question list of the second row numbered n *)
SecondOccurrence(n) ==
    LET at == {i \in 1..Len(Questions) : Questions[i].number = n}
        first == CHOOSE i \in at : \A j \in at : i <= j
    IN  CHOOSE i \in at \ {first} : \A j \in at \ {first} : i <= j

----------------------------------------------------------------------------
(* C1 as stated: the question list of every exam block is sorted strictly  *)
(* ascending by number, whatever order the matched rows have in the text.  *)
C1_StrictlyAscending ==
    ExamBuilt =>
        \A i \in 1..(Len(Questions) - 1) :
            Questions[i].number < Questions[i + 1].number

(* C1 amended: the question list is sorted ascending by number (each       *)
(* row's number is less than or equal to the next row's) whatever order    *)
(* the matched rows have in the text, and strictly ascending when no       *)
(* number is carried by two matched rows.                                  *)
C1_SortedAscending ==
    ExamBuilt =>
        /\ \A i \in 1..(Len(Questions) - 1) :
               Questions[i].number <= Questions[i + 1].number
        /\ (\A n \in ParsedNumbers : RowsNumbered(n) = 1)
               => \A i \in 1..(Len(Questions) - 1) :
                      Questions[i].number < Questions[i + 1].number

C1_Witness ==
    /\ ExamBuilt
    /\ Len(MatchedRows) >= 3
    /\ \A i \in 1..(Len(MatchedRows) - 1) :
           IntOf(MatchedRows[i].num) > IntOf(MatchedRows[i + 1].num)
    /\ Len(Questions) = Len(MatchedRows)

(* C2 as stated: for every exam block the three integrity lists are all    *)
(* empty if and only if the parsed numbers are exactly 1..expected_total,  *)
(* each occurring once.                                                    *)
C2_EmptyIffContiguous ==
    ExamBuilt => (IntegrityListsEmpty <=> ExactlyOneToExpected)

(* C2 amended: for every exam block in which at least one question row is  *)
(* parsed, the three integrity lists are all empty if and only if the      *)
(* parsed numbers are exactly 1..expected_total, each occurring once; for  *)
(* a block without parsed rows the three lists are empty whatever total    *)
(* the block reports.                                                      *)
C2_EmptyIffContiguousWhenParsed ==
    ExamBuilt =>
        /\ Questions # <<>> => (IntegrityListsEmpty <=> ExactlyOneToExpected)
        /\ Questions = <<>> => IntegrityListsEmpty

C2_Witness ==
    /\ ExamBuilt
    /\ HasReportedTotal
    /\ Len(Questions) >= 2
    /\ IntegrityListsEmpty
    /\ ExactlyOneToExpected

(* C3: when at least one row is parsed, missing_numbers is the ascending   *)
(* list of every n in 1..expected_total that is not a parsed number; when  *)
(* no row is parsed it is empty.                                           *)
C3_MissingNumbers ==
    ExamBuilt =>
        /\ Questions # <<>> =>
              /\ IsAscending(Summary.missing_numbers)
              /\ SeqRange(Summary.missing_numbers) =
                     {n \in 1..ClaimedExpectedTotal : n \notin ParsedNumbers}
        /\ Questions = <<>> => Summary.missing_numbers = <<>>

C3_Witness ==
    /\ ExamBuilt
    /\ HasReportedTotal
    /\ Cardinality(ParsedNumbers \cap 1..ClaimedExpectedTotal) >= 2
    /\ Len(Summary.missing_numbers) >= 2
    /\ ClaimedExpectedTotal \notin ParsedNumbers

(* C4: when at least one row is parsed, unexpected_numbers lists, once     *)
(* each and ascending, the parsed numbers n with n < 1 or                  *)
(* n > expected_total; without a reported total nothing above 0 is listed. *)
C4_UnexpectedNumbers ==
    (ExamBuilt /\ Questions # <<>>) =>
        /\ IsAscending(Summary.unexpected_numbers)
        /\ SeqRange(Summary.unexpected_numbers) =
               {n \in ParsedNumbers : n < 1 \/ n > ClaimedExpectedTotal}
        /\ ~HasReportedTotal =>
               \A n \in SeqRange(Summary.unexpected_numbers) : n <= 0

C4_Witness ==
    /\ ExamBuilt
    /\ HasReportedTotal
    /\ exam.metadata["reported_total"] = 35
    /\ Occurrences(36) = 2
    /\ Summary.unexpected_numbers = <<0, 36>>

(* C5: duplicate_numbers holds exactly the numbers carried by two or more  *)
(* parsed rows, each once, ordered by where the second occurrence of each  *)
(* stands in the number-sorted question list; every occurrence stays in    *)
(* questions and is counted in total_questions_parsed.                     *)
C5_DuplicateNumbers ==
    ExamBuilt =>
        LET d == Summary.duplicate_numbers
        IN  /\ SeqRange(d) = {n \in ParsedNumbers : Occurrences(n) >= 2}
            /\ \A i, j \in 1..Len(d) : i # j => d[i] # d[j]
            /\ \A i, j \in 1..Len(d) :
                   i < j => SecondOccurrence(d[i]) < SecondOccurrence(d[j])
            /\ \A n \in ParsedNumbers : Occurrences(n) = RowsNumbered(n)
            /\ Len(Questions) = Len(MatchedRows)
            /\ Summary.total_questions_parsed = Len(MatchedRows)

C5_Witness ==
    /\ ExamBuilt
    /\ Len(Summary.duplicate_numbers) = 2
    /\ Summary.total_questions_parsed = 4
    /\ IntOf(MatchedRows[1].num) > IntOf(MatchedRows[2].num)

----------------------------------------------------------------------------
(* Vocabulary of the properties of one file record *)

FileBuilt == "build_output" \in returned

HeaderPositions == {i \in 1..Len(text) : text[i].kind = "header"}

HeaderCount == Cardinality(HeaderPositions)

(* position of the k-th header line of the text *)
NthHeader(k) ==
    CHOOSE i \in HeaderPositions :
        Cardinality({j \in HeaderPositions : j <= i}) = k

(* rows standing after the k-th header line and before the next one *)
RowsUnderHeader(k) ==
    {i \in 1..Len(text) :
        /\ text[i].kind = "row"
        /\ i > NthHeader(k)
        /\ \A j \in HeaderPositions : j > NthHeader(k) => i < j}

RECURSIVE SumOver(_, _)
SumOver(s, field) ==
    IF s = <<>> THEN 0 ELSE Head(s).summary[field] + SumOver(Tail(s), field)

(* C6: with zero or one header line build_output returns the flat record   *)
(* (questions, no exams key); with k >= 2 header lines it returns k exam    *)
(* records, one per header in document order, total_exams_parsed = k and   *)
(* the question/correct/incorrect totals are the sums over the k exams.    *)
C6_ShapeByHeaderCount ==
    FileBuilt =>
        /\ HeaderCount <= 1 =>
              /\ "questions" \in DOMAIN file_rec
              /\ "exams" \notin DOMAIN file_rec
        /\ HeaderCount >= 2 =>
              /\ "exams" \in DOMAIN file_rec
              /\ "questions" \notin DOMAIN file_rec
              /\ Len(file_rec.exams) = HeaderCount
              /\ \A k \in 1..HeaderCount :
                    /\ file_rec.exams[k].metadata["candidate_name"]
                           = text[NthHeader(k)].name
                    /\ Len(file_rec.exams[k].questions)
                           = Cardinality(RowsUnderHeader(k))
              /\ file_rec.summary.total_exams_parsed = HeaderCount
              /\ file_rec.summary.total_questions_parsed
                     = SumOver(file_rec.exams, "total_questions_parsed")
              /\ file_rec.summary.correct = SumOver(file_rec.exams, "correct")
              /\ file_rec.summary.incorrect = SumOver(file_rec.exams, "incorrect")

C6_Witness ==
    /\ FileBuilt
    /\ HeaderCount = 2
    /\ "exams" \in DOMAIN file_rec
    /\ Len(file_rec.exams[1].questions) = 2
    /\ Len(file_rec.exams[2].questions) = 1
    /\ file_rec.summary.incorrect = 1
    /\ file_rec.exams[1].metadata["candidate_name"]
           # file_rec.exams[2].metadata["candidate_name"]

----------------------------------------------------------------------------
(* Vocabulary of the properties of the statistics tables *)

RowIds == {rows[i].question_id : i \in 1..Len(rows)}

Attempts(id) == Cardinality({i \in 1..Len(rows) : rows[i].question_id = id})

Corrects(id) ==
    Cardinality({i \in 1..Len(rows) :
                    rows[i].question_id = id /\ rows[i].is_correct})

Abs(x) == IF x < 0 THEN -x ELSE x

EntriesFor(table, key_name, key) ==
    {i \in 1..Len(table) : table[i][key_name] = key}

(* C9: compute_question_stats returns one entry per distinct question_id   *)
(* of the rows, with attempts the number of rows carrying the id, correct  *)
(* the number of those with is_correct, incorrect = attempts - correct,    *)
(* accuracy = correct/attempts rounded to 4 decimals, and attempts >= 1.   *)
C9_QuestionStats ==
    "compute_question_stats" \in returned =>
        /\ \A id \in RowIds :
               Cardinality(EntriesFor(question_stats, "question_id", id)) = 1
        /\ \A i \in 1..Len(question_stats) :
               LET e == question_stats[i]
                   id == e["question_id"]
               IN  /\ id \in RowIds
                   /\ e["attempts"] = Attempts(id)
                   /\ e["correct"] = Corrects(id)
                   /\ e["incorrect"] = e["attempts"] - e["correct"]
                   /\ e["attempts"] >= 1
                   /\ 2 * Abs(e["accuracy"] * e["attempts"] - 10000 * e["correct"])
                          <= e["attempts"]

C9_Witness ==
    /\ "compute_question_stats" \in returned
    /\ Len(rows) = 3
    /\ \E i \in 1..Len(question_stats) :
           question_stats[i] =
               [question_id |-> T3A04, attempts |-> 2, correct |-> 1,
                incorrect |-> 1, accuracy |-> 5000]

(* (a.accuracy, -a.attempts, a.key) <= (b.accuracy, -b.attempts, b.key) *)
RECURSIVE CodePointsLeq(_, _)
CodePointsLeq(a, b) ==
    IF a = <<>> THEN TRUE
    ELSE IF b = <<>> THEN FALSE
    ELSE IF Head(a) < Head(b) THEN TRUE
    ELSE IF Head(a) > Head(b) THEN FALSE
    ELSE CodePointsLeq(Tail(a), Tail(b))

TriageLeq(a, b, key_name) ==
    \/ a["accuracy"] < b["accuracy"]
    \/ /\ a["accuracy"] = b["accuracy"]
       /\ a["attempts"] > b["attempts"]
    \/ /\ a["accuracy"] = b["accuracy"]
       /\ a["attempts"] = b["attempts"]
       /\ CodePointsLeq(a[key_name], b[key_name])

TriageOrdered(table, key_name) ==
        \A i \in 1..(Len(table) - 1) : TriageLeq(table[i], table[i + 1], key_name)

(* C10: each of question_stats, section_stats and subsection_stats is      *)
(* ordered by ascending accuracy, then descending attempts, then ascending *)
(* group key: every adjacent pair a, b has                                 *)
(* (a.accuracy, -a.attempts, a.key) <= (b.accuracy, -b.attempts, b.key).   *)
C10_TriageOrder ==
    /\ TriageOrdered(question_stats, "question_id")
    /\ TriageOrdered(section_stats, "section_id")
    /\ TriageOrdered(subsection_stats, "subsection_id")

C10_Witness ==
    /\ "compute_subsection_stats" \in returned
    /\ Len(section_stats) = 3
    /\ section_stats[1]["accuracy"] < section_stats[2]["accuracy"]
    /\ section_stats[1]["attempts"] < section_stats[2]["attempts"]
    /\ section_stats[2]["accuracy"] = section_stats[3]["accuracy"]
    /\ section_stats[2]["attempts"] > section_stats[3]["attempts"]
    /\ \E i \in 1..(Len(question_stats) - 1) :
           /\ question_stats[i]["accuracy"] = question_stats[i + 1]["accuracy"]
           /\ question_stats[i]["attempts"] = question_stats[i + 1]["attempts"]

----------------------------------------------------------------------------
(* Vocabulary of the properties of a run of main *)

Inputs == args.input

Exited == pc = "exit"

SomeInputMissing == \E i \in 1..Len(Inputs) : Inputs[i].status = "missing"

FailingInputs ==
    {i \in 1..Len(Inputs) : Inputs[i].status \in {"extract_fails", "parse_fails"}}

FirstFailing == CHOOSE i \in FailingInputs : \A j \in FailingInputs : i <= j

OutputFiles ==
    {"out", "csv", "stats_csv", "section_stats_csv", "subsection_stats_csv"}

(* C7: when extraction or parsing of an input fails, the run stops at the  *)
(* first failing input with exit code 1 and no output file is written at   *)
(* any point of the run; no write happens before every input is processed. *)
C7_NoPartialSuccess ==
    /\ (~SomeInputMissing /\ FailingInputs # {}) =>
           /\ written = {}
           /\ idx <= FirstFailing
           /\ extracted <= FirstFailing
           /\ Exited =>
                  /\ exit_code = 1
                  /\ idx = FirstFailing
                  /\ extracted = FirstFailing
                  /\ Len(outputs) = FirstFailing - 1
    /\ written \subseteq OutputFiles
    /\ written # {} => Len(outputs) = Len(Inputs) /\ idx > Len(Inputs)

C7_Witness ==
    /\ Exited
    /\ exit_code = 1
    /\ Len(Inputs) = 3
    /\ Inputs[1].status = "ok" /\ Inputs[1].text # <<>>
    /\ Inputs[2].status = "parse_fails"
    /\ Inputs[3].status = "extract_fails"
    /\ Len(outputs) = 1
    /\ all_csv_rows # <<>>
    /\ args.csv /\ args.stats_csv /\ args.out
    /\ written = {}

(* C8: every input path is checked for existence before any input is       *)
(* extracted or parsed: with a missing path anywhere in the list the run   *)
(* returns 2 without extraction, parsing or output; a failure after the    *)
(* check returns 1 and a run without failure returns 0.                    *)
C8_ExitCodes ==
    /\ SomeInputMissing =>
           /\ extracted = 0
           /\ outputs = <<>>
           /\ all_csv_rows = <<>>
           /\ written = {}
           /\ ~printed
           /\ Exited => exit_code = 2
    /\ pc = "check_inputs" => extracted = 0 /\ outputs = <<>> /\ written = {}
    /\ (Exited /\ ~SomeInputMissing) =>
           /\ exit_code = IF error # "" THEN 1 ELSE 0
           /\ FailingInputs # {} => exit_code = 1
           /\ exit_code = 0 =>
                  /\ FailingInputs = {}
                  /\ Len(outputs) = Len(Inputs)
                  /\ extracted = Len(Inputs)
                  /\ printed \/ "out" \in written
    /\ Exited <=> exit_code # NoExit

C8_Witness ==
    /\ Exited
    /\ exit_code = 2
    /\ Len(Inputs) = 3
    /\ Inputs[1].status = "ok"
    /\ Inputs[2].status = "extract_fails"
    /\ Inputs[3].status = "missing"
    /\ extracted = 0
    /\ args.out

----------------------------------------------------------------------------
(* Vocabulary of the properties of an aggregate *)

Aggregated == "build_multi_file_output" \in returned

(* the exam records of one file record *)
ExamsOf(rec) == IF "exams" \in DOMAIN rec THEN rec.exams ELSE <<rec>>

(* (file, exam, question) positions of the parsed rows of the file records *)
ParsedRowPositions ==
    {p \in (1..Len(outputs)) \X (1..MaxStreamLen) \X (1..MaxStreamLen) :
        /\ p[2] <= Len(ExamsOf(outputs[p[1]]))
        /\ p[3] <= Len(ExamsOf(outputs[p[1]])[p[2]].questions)}

RowAt(p) == ExamsOf(outputs[p[1]])[p[2]].questions[p[3]]

CorrectRowPositions == {p \in ParsedRowPositions : RowAt(p).is_correct}

ExamBlockPositions ==
    {p \in (1..Len(outputs)) \X (1..MaxStreamLen) :
        p[2] <= Len(ExamsOf(outputs[p[1]]))}

RECURSIVE ColumnSum(_, _)
ColumnSum(table, column) ==
    IF table = <<>> THEN 0
    ELSE Head(table)[column] + ColumnSum(Tail(table), column)

ConservedIn(table) ==
    /\ ColumnSum(table, "attempts") = data.summary.total_questions_parsed
    /\ ColumnSum(table, "correct") = data.summary.correct
    /\ ColumnSum(table, "incorrect") = data.summary.incorrect

(* C11: the aggregate's total_questions_parsed is the number of flattened  *)
(* question rows and the sum of attempts over each of the three tables;    *)
(* correct and incorrect are the sums of those columns over each table;    *)
(* correct + incorrect = total_questions_parsed; total_exams_parsed is the *)
(* number of exam blocks over all files (1 for a flat record).             *)
C11_Conservation ==
    Aggregated =>
        /\ data.summary.total_questions_parsed = Cardinality(ParsedRowPositions)
        /\ data.summary.correct = Cardinality(CorrectRowPositions)
        /\ ConservedIn(data.question_stats)
        /\ ConservedIn(data.section_stats)
        /\ ConservedIn(data.subsection_stats)
        /\ data.summary.correct + data.summary.incorrect
               = data.summary.total_questions_parsed
        /\ data.summary.total_exams_parsed = Cardinality(ExamBlockPositions)
        /\ data.summary.total_input_files = Len(outputs)

C11_Witness ==
    /\ Aggregated
    /\ Len(outputs) = 2
    /\ "exams" \in DOMAIN outputs[1]
    /\ Len(outputs[1].exams) = 2
    /\ "exams" \notin DOMAIN outputs[2]
    /\ data.summary.total_exams_parsed = 3
    /\ data.summary.total_questions_parsed = 3
    /\ data.summary.incorrect = 1
    /\ Len(data.section_stats) = 1
    /\ Len(data.subsection_stats) = 2

====
